---- MODULE Spec2Model ----
(***************************************************************************)
(* A model of rigidity: the Rigidity wrapper (src/rigidity/__init__.py)    *)
(* around a csv reader or writer, and the rules (src/rigidity/rules.py)    *)
(* its pipeline folds over the fields of a row.                            *)
(*                                                                         *)
(* A string is a sequence of one-character strings, so that the string     *)
(* operations of the rules (strip, replacement lookup) are computed and    *)
(* not assumed.  A list row is a function on 0..W-1 (Python's indices), a  *)
(* dict row a function on a set of names.  A rule instance is a record of  *)
(* its attributes, its mutable ones (Unique.encountered) included.         *)
(***************************************************************************)
EXTENDS Integers, Sequences, FiniteSets, TLC

VARIABLES
    mode,       \* what csvobj is: "reader", "writer" or "none"
    rules,      \* self.rules, aliasing the caller's object: [order, chain]
    keys,       \* self.keys: a range (list rules) or a live key view (dict rules)
    keys0,      \* the keys as they were when __init__ returned
    source,     \* the rows the underlying reader has not produced yet
    sink,       \* the calls the underlying writer has received
    handed,     \* how many rows and headers the caller has given to write
    gen,        \* the generator made by __iter__: "none", "suspended", "finished"
    mutations,  \* how often the caller has modified the rules object
    result,     \* what the last call did and what its caller observed
    display,    \* self.display
    rowtype,    \* the class of the rows the caller passes: "list", "dict", "tuple"
    inst,       \* a rule instance the caller holds and calls directly
    history,    \* the values given to inst so far
    made        \* the constructor call that made inst, with its arguments

vars == <<mode, rules, keys, keys0, source, sink, handed, gen, mutations,
          result, display, rowtype, inst, history, made>>

----------------------------------------------------------------------------
(* Bounds of the model *)

\* columns of a rule configuration, and fields of a row
MaxCols == 2
\* rows of a source, calls a sink receives, rows of one writerows call
MaxRows == 2
\* modifications of the rules object by the caller
MaxMutations == 1
\* calls made on one rule instance that keeps state
MaxCalls == 3
\* characters of a value given to a rule that parses it
MaxLen == 3

----------------------------------------------------------------------------
(* Strings *)

S_a == <<"a">>
S_sp_a == <<" ", "a">>
S_a_sp == <<"a", " ">>

\* str.strip() without arguments removes whitespace
Whitespace == {" ", "\t", "\n", "\r"}

RECURSIVE LStrip(_, _)
LStrip(s, chars) ==
    IF s # <<>> /\ Head(s) \in chars THEN LStrip(Tail(s), chars) ELSE s

RECURSIVE RStrip(_, _)
RStrip(s, chars) ==
    IF s # <<>> /\ s[Len(s)] \in chars
    THEN RStrip(SubSeq(s, 1, Len(s) - 1), chars)
    ELSE s

StrStrip(s, chars) == RStrip(LStrip(s, chars), chars)

\* 'default', the value the tests configure as a default
S_default == <<"d", "e", "f", "a", "u", "l", "t">>

\* Python's None among the values: a one-element sequence that is no string,
\* the strings being sequences of single characters
None == <<"None">>

\* Python's True and False among the values, written as None is
True == <<"True">>
False == <<"False">>

\* str(value): a string is itself, None is 'None'
Str(value) == IF value = None THEN <<"N", "o", "n", "e">> ELSE value

\* The letters, and str.lower() on strings of letters, digits and blanks
UpperLetters ==
    <<"A", "B", "C", "D", "E", "F", "G", "H", "I", "J", "K", "L", "M",
      "N", "O", "P", "Q", "R", "S", "T", "U", "V", "W", "X", "Y", "Z">>
LowerLetters ==
    <<"a", "b", "c", "d", "e", "f", "g", "h", "i", "j", "k", "l", "m",
      "n", "o", "p", "q", "r", "s", "t", "u", "v", "w", "x", "y", "z">>

LowerChar(c) ==
    IF \E i \in 1..Len(UpperLetters) : UpperLetters[i] = c
    THEN LowerLetters[CHOOSE i \in 1..Len(UpperLetters) : UpperLetters[i] = c]
    ELSE c

UpperChar(c) ==
    IF \E i \in 1..Len(LowerLetters) : LowerLetters[i] = c
    THEN UpperLetters[CHOOSE i \in 1..Len(LowerLetters) : LowerLetters[i] = c]
    ELSE c

\* (StrLowerFirst: a lower() that lowers the first character only)
StrLowerFirst(s) == [i \in 1..Len(s) |-> IF i = 1 THEN LowerChar(s[i]) ELSE s[i]]

StrLower(s) == [i \in 1..Len(s) |-> LowerChar(s[i])]

DigitChars == <<"0", "1", "2", "3", "4", "5", "6", "7", "8", "9">>
IsDigit(c) == \E i \in 1..Len(DigitChars) : DigitChars[i] = c
DigitVal(c) == (CHOOSE i \in 1..Len(DigitChars) : DigitChars[i] = c) - 1

\* The number a string of digits denotes in base ten
RECURSIVE DigitsValue(_)
DigitsValue(ds) ==
    IF ds = <<>>
    THEN 0
    ELSE DigitsValue(SubSeq(ds, 1, Len(ds) - 1)) * Len(DigitChars)
         + DigitVal(ds[Len(ds)])

AllDigits(s) == \A i \in 1..Len(s) : IsDigit(s[i])

\* A string without its sign, and whether the sign is a minus
Unsigned(s) == IF s # <<>> /\ Head(s) \in {"+", "-"} THEN Tail(s) ELSE s
Negative(s) == s # <<>> /\ Head(s) = "-"

\* int(s) for a string s of whitespace, signs, digits and other characters
\* (no underscores): whitespace around, one optional sign, one or more digits
IntValid(s) ==
    /\ Unsigned(StrStrip(s, Whitespace)) # <<>>
    /\ AllDigits(Unsigned(StrStrip(s, Whitespace)))

\* float(s) for a string s of whitespace, signs, digits, points and other
\* characters (no exponent, no underscore, no "inf" or "nan"): whitespace
\* around, one optional sign, digits with at most one point among them
PointsOf(b) == {i \in 1..Len(b) : b[i] = "."}

FloatValid(s) ==
    /\ \A i \in 1..Len(Unsigned(StrStrip(s, Whitespace))) :
           \/ IsDigit(Unsigned(StrStrip(s, Whitespace))[i])
           \/ Unsigned(StrStrip(s, Whitespace))[i] = "."
    /\ \E i \in 1..Len(Unsigned(StrStrip(s, Whitespace))) :
           IsDigit(Unsigned(StrStrip(s, Whitespace))[i])
    /\ Cardinality(PointsOf(Unsigned(StrStrip(s, Whitespace)))) <= 1

\* The digits before the point of a body b and those after it, the latter
\* without the zeros at their end
IntPart(b) ==
    IF PointsOf(b) = {} THEN b
    ELSE SubSeq(b, 1, (CHOOSE i \in PointsOf(b) : TRUE) - 1)

FracPart(b) ==
    IF PointsOf(b) = {} THEN <<>>
    ELSE RStrip(SubSeq(b, (CHOOSE i \in PointsOf(b) : TRUE) + 1, Len(b)), {"0"})

\* A float: the number mant / 10^scale with the least scale possible
FloatOf(negative, b) ==
    [mant |-> IF negative
              THEN 0 - DigitsValue(IntPart(b) \o FracPart(b))
              ELSE DigitsValue(IntPart(b) \o FracPart(b)),
     scale |-> Len(FracPart(b))]

FloatValue(s) ==
    FloatOf(Negative(StrStrip(s, Whitespace)), Unsigned(StrStrip(s, Whitespace)))

\* 0.0
FloatZero == [mant |-> 0, scale |-> 0]

IntValue(s) ==
    IF Negative(StrStrip(s, Whitespace))
    THEN 0 - DigitsValue(Unsigned(StrStrip(s, Whitespace)))
    ELSE DigitsValue(Unsigned(StrStrip(s, Whitespace)))

----------------------------------------------------------------------------
(* Rules *)

ReplaceValue_ACTION_DROPROW == 1
ReplaceValue_ACTION_DEFAULT_VALUE == 2
ReplaceValue_ACTION_PASSTHROUGH == 3
ReplaceValue_ACTION_ERROR == 4
ReplaceValue_ACTION_BLANK == 5
Unique_ACTION_ERROR == 1
Unique_ACTION_DROPROW == 2
Integer_ACTION_ERROR == 1
Integer_ACTION_ZERO == 2
Integer_ACTION_DROPROW == 3
Float_ACTION_ERROR == 1
Float_ACTION_ZERO == 2
Float_ACTION_DROPROW == 3

DISPLAY_NONE == 0
DISPLAY_SIMPLE == 1

NoRepl == [x \in {} |-> <<>>]

Rule(kind, action, repl, default) ==
    [kind |-> kind, action |-> action, replacements |-> repl, default_value |-> default, encountered |-> <<>>]

Boolean_ACTION_ERROR == 1
Boolean_ACTION_DEFAULT == 2
Boolean_ACTION_DROPROW == 3

\* The policies of Cary, a rule the tests construct and rules.py does not
\* define: the numbers stand for its three ACTION_ attributes
Cary_ACTION_ERROR == 1
Cary_ACTION_DEFAULT == 2
Cary_ACTION_DROPROW == 3

\* The digits of a UPC-A code
UPC_LENGTH == 12

\* An action number that is none of a rule's ACTION_ constants
ACTION_UNKNOWN == 9

\* No rule instance, and no constructor call
NoRule == Rule("none", 0, NoRepl, <<>>)
NoCall == [kind |-> "none"]

\* Strip.__init__ with chars=None
NewStrip == Rule("Strip", 0, NoRepl, <<>>)

\* (NewReplaceValueKeepsBlank: an __init__ that leaves ACTION_BLANK as it is)
NewReplaceValueKeepsBlank(replacements, missing_action, default_value) ==
    Rule("ReplaceValue", missing_action, replacements, default_value)

\* ReplaceValue.__init__
NewReplaceValue(replacements, missing_action, default_value) ==
    IF missing_action = ReplaceValue_ACTION_BLANK
    THEN Rule("ReplaceValue", ReplaceValue_ACTION_DEFAULT_VALUE, replacements,
              <<>>)
    ELSE Rule("ReplaceValue", missing_action, replacements, default_value)

\* Unique.__init__
NewUnique(action) == Rule("Unique", action, NoRepl, <<>>)

\* Integer.__init__
NewInteger(action) == Rule("Integer", action, NoRepl, <<>>)

\* Float.__init__
NewFloat(action) == Rule("Float", action, NoRepl, <<>>)

\* Cary(action, default): nothing carried yet
NewCary(action, default) ==
    [kind |-> "Cary", action |-> action, default |-> default, carried |-> None]

\* Boolean.__init__
NewBoolean(allow_null, action, default) ==
    [kind |-> "Boolean", allow_null |-> allow_null, default |-> default,
     action |-> action]

\* UpcA.__init__
NewUpcA(strict) == [kind |-> "UpcA", strict |-> strict]

\* What a call of a rule gives: the value it returns or the exception it
\* raises, and the rule instance afterwards.
Returned(rule, value) == [outcome |-> "ok", value |-> value, rule |-> rule]
Raised(rule, exc, value) == [outcome |-> exc, value |-> value, rule |-> rule]

StripApply(rule, value) == Returned(rule, StrStrip(value, Whitespace))

ReplaceValueApply(rule, value) ==
    IF value \in DOMAIN rule.replacements
    THEN Returned(rule, rule.replacements[value])
    ELSE IF rule.action = ReplaceValue_ACTION_DROPROW
    THEN Raised(rule, "DropRow", value)
    ELSE IF rule.action = ReplaceValue_ACTION_PASSTHROUGH
    THEN Returned(rule, value)
    ELSE IF rule.action = ReplaceValue_ACTION_DEFAULT_VALUE
    THEN Returned(rule, rule.default_value)
    ELSE Raised(rule, "IndexError", value)

\* (UniqueApplyLastOnly: a Unique that compares with the value before only)
UniqueApplyLastOnly(rule, value) ==
    IF /\ rule.encountered # <<>>
       /\ rule.encountered[Len(rule.encountered)] = value
    THEN IF rule.action = Unique_ACTION_DROPROW
         THEN Raised(rule, "DropRow", value)
         ELSE Raised(rule, "Exception", value)
    ELSE Returned([rule EXCEPT !.encountered = Append(@, value)], value)

UniqueApply(rule, value) ==
    IF \E i \in 1..Len(rule.encountered) : rule.encountered[i] = value
    THEN IF rule.action = Unique_ACTION_DROPROW
         THEN Raised(rule, "DropRow", value)
         ELSE Raised(rule, "Exception", value)
    ELSE Returned([rule EXCEPT !.encountered = Append(@, value)], value)

\* Integer.apply: int(value), and on ValueError what self.action says; int(None)
\* raises TypeError, which the `except ValueError` clause does not catch
IntegerApply(rule, value) ==
    IF value = None
    THEN Raised(rule, "TypeError", value)
    ELSE IF IntValid(value)
    THEN Returned(rule, IntValue(value))
    ELSE IF rule.action = Integer_ACTION_ERROR
    THEN Raised(rule, "ValueError", value)
    ELSE IF rule.action = Integer_ACTION_ZERO
    THEN Returned(rule, 0)
    ELSE IF rule.action = Integer_ACTION_DROPROW
    THEN Raised(rule, "DropRow", value)
    ELSE Raised(rule, "ValueError", value)

\* Float.apply: float(value), and on ValueError what self.action says;
\* float(None) raises TypeError
FloatApply(rule, value) ==
    IF value = None
    THEN Raised(rule, "TypeError", value)
    ELSE IF FloatValid(value)
    THEN Returned(rule, FloatValue(value))
    ELSE IF rule.action = Float_ACTION_ERROR
    THEN Raised(rule, "ValueError", value)
    ELSE IF rule.action = Float_ACTION_ZERO
    THEN Returned(rule, FloatZero)
    ELSE IF rule.action = Float_ACTION_DROPROW
    THEN Raised(rule, "DropRow", value)
    ELSE Raised(rule, "ValueError", value)

\* value.isdigit(): one character or more, and all of them digits
IsDigitStr(s) == s # <<>> /\ AllDigits(s)

\* '0' * n, which is '' for n <= 0
Zeros(n) == [i \in 1..n |-> "0"]

\* (ZeroPadRight: a padding that puts the zeros after the digits)
ZeroPadRight(value) == value \o Zeros(UPC_LENGTH - Len(value))

\* '0' * (12 - len(value)) + value
ZeroPad(value) == Zeros(UPC_LENGTH - Len(value)) \o value

\* value[start:stop:step] for 0 <= start <= stop <= len(value), step > 0
Slice(value, start, stop, step) ==
    [i \in 1..((stop - start + step - 1) \div step) |->
        value[start + (i - 1) * step + 1]]

\* sum([int(x) for x in digits])
RECURSIVE SumDigits(_)
SumDigits(digits) ==
    IF digits = <<>> THEN 0
    ELSE DigitVal(Head(digits)) + SumDigits(Tail(digits))

\* (CheckDigitUnweighted: a check digit of the plain sum of the digits)
CheckDigitUnweighted(value) ==
    ((0 - 1) * (SumDigits(Slice(value, 0, UPC_LENGTH - 1, 2))
                + SumDigits(Slice(value, 1, UPC_LENGTH - 1, 2)))) % 10

\* odd = sum(value[0:11:2]) * 3; even = sum(value[1:11:2]);
\* check = (-1 * (odd + even) % 10), Python's % giving a value in 0..9
CheckDigit(value) ==
    ((0 - 1) * (SumDigits(Slice(value, 0, UPC_LENGTH - 1, 2)) * 3
                + SumDigits(Slice(value, 1, UPC_LENGTH - 1, 2)))) % 10

\* UpcA.apply, on a string (str(value) is the string itself)
UpcAApply(rule, value) ==
    IF ~IsDigitStr(value)
    THEN Raised(rule, "ValueError", value)
    ELSE IF Len(ZeroPad(value)) > UPC_LENGTH
    THEN Raised(rule, "ValueError", value)
    ELSE IF /\ rule.strict
            /\ DigitVal(ZeroPad(value)[UPC_LENGTH]) # CheckDigit(ZeroPad(value))
    THEN Raised(rule, "ValueError", value)
    ELSE Returned(rule, ZeroPad(value))

\* (CaryApplyKeepsFirst: a Cary that carries the first value it was given)
CaryApplyKeepsFirst(rule, value) ==
    IF value # <<>>
    THEN Returned(IF rule.carried = None
                  THEN [rule EXCEPT !.carried = value]
                  ELSE rule, value)
    ELSE IF rule.carried # None
    THEN Returned(rule, rule.carried)
    ELSE IF rule.action = Cary_ACTION_DEFAULT
    THEN Returned(rule, rule.default)
    ELSE IF rule.action = Cary_ACTION_DROPROW
    THEN Raised(rule, "DropRow", value)
    ELSE Raised(rule, "ValueError", value)

\* Cary.apply: a value that is not empty is returned and carried from then
\* on; an empty value gives the value carried, and with nothing carried what
\* the policy says: ValueError, the default (which is not carried), DropRow
CaryApply(rule, value) ==
    IF value # <<>>
    THEN Returned([rule EXCEPT !.carried = value], value)
    ELSE IF rule.carried # None
    THEN Returned(rule, rule.carried)
    ELSE IF rule.action = Cary_ACTION_DEFAULT
    THEN Returned(rule, rule.default)
    ELSE IF rule.action = Cary_ACTION_DROPROW
    THEN Raised(rule, "DropRow", value)
    ELSE Raised(rule, "ValueError", value)

\* The tokens Boolean.apply looks for
TrueTokens == {<<"t", "r", "u", "e">>, <<"y", "e", "s">>, <<"t">>, <<"1">>}
FalseTokens == {<<"f", "a", "l", "s", "e">>, <<"n", "o">>, <<"f">>, <<"0">>}
NullTokens == {<<"n", "u", "l", "l">>, <<"n", "o", "n", "e">>, <<>>}

\* Boolean.apply
BooleanApply(rule, value) ==
    IF StrLower(Str(value)) \in TrueTokens
    THEN Returned(rule, True)
    ELSE IF StrLower(Str(value)) \in FalseTokens
    THEN Returned(rule, False)
    ELSE IF rule.allow_null /\ StrLower(Str(value)) \in NullTokens
    THEN Returned(rule, None)
    ELSE IF rule.action = Boolean_ACTION_ERROR
    THEN Raised(rule, "ValueError", value)
    ELSE IF rule.action = Boolean_ACTION_DEFAULT
    THEN Returned(rule, rule.default)
    ELSE IF rule.action = Boolean_ACTION_DROPROW
    THEN Raised(rule, "DropRow", value)
    ELSE Raised(rule, "ValueError", value)

RuleApply(rule, value) ==
    CASE rule.kind = "Strip" -> StripApply(rule, value)
      [] rule.kind = "ReplaceValue" -> ReplaceValueApply(rule, value)
      [] rule.kind = "Unique" -> UniqueApply(rule, value)
      [] rule.kind = "Integer" -> IntegerApply(rule, value)
      [] rule.kind = "Float" -> FloatApply(rule, value)
      [] rule.kind = "UpcA" -> UpcAApply(rule, value)
      [] rule.kind = "Boolean" -> BooleanApply(rule, value)
      [] rule.kind = "Cary" -> CaryApply(rule, value)
      [] rule.kind = "Bytes" -> Returned(rule, value)

\* Bytes --------------------------------------------------------------------
\* A str is a sequence of characters. A bytes object is written as the word
\* "bytes" followed by its bytes, each as two hexadecimal digits, so that b''
\* and '' are different values.
Bytes(body) == <<"bytes">> \o body
IsBytes(v) == v # <<>> /\ v[1] = "bytes"
IsStr(v) == v # None /\ ~IsBytes(v)
Body(v) == Tail(v)

\* The characters of the strings given to Bytes, and the byte of each in
\* Latin-1 (which is its byte in ASCII if that is below 80)
Latin1 ==
    [c \in {"a", "u", "0", "2", "c", "\\", "é", "Ã"} |->
        CASE c = "a" -> "61" [] c = "u" -> "75" [] c = "0" -> "30"
          [] c = "2" -> "32" [] c = "c" -> "63" [] c = "\\" -> "5c"
          [] c = "é" -> "e9" [] c = "Ã" -> "c3"]
Euro == "€"
ByteChars == DOMAIN Latin1 \cup {Euro}

\* The encodings: three character sets and raw_unicode_escape, which writes
\* a character beyond Latin-1 as \uXXXX and reads \uXXXX as that character
Charsets == {"utf8", "ascii", "latin-1"}
Encodings == Charsets \cup {"raw_unicode_escape"}

\* The bytes of one character in an encoding, <<>> if it has none
CharBytes(encoding, c) ==
    CASE c = Euro ->
            (CASE encoding = "utf8" -> <<"e2", "82", "ac">>
               [] encoding = "raw_unicode_escape" ->
                      <<"5c", "75", "32", "30", "61", "63">>
               [] OTHER -> <<>>)
      [] c \in {"é", "Ã"} ->
            (CASE encoding = "utf8" ->
                      IF c = "é" THEN <<"c3", "a9">> ELSE <<"c3", "83">>
               [] encoding = "ascii" -> <<>>
               [] OTHER -> <<Latin1[c]>>)
      [] OTHER -> <<Latin1[c]>>

\* str.encode: the bytes of the characters one after the other, if every
\* character has bytes in the encoding (UnicodeEncodeError if not)
CanEncode(encoding, str) ==
    \A i \in 1..Len(str) : CharBytes(encoding, str[i]) # <<>>

RECURSIVE Encode(_, _)
Encode(encoding, str) ==
    IF str = <<>> THEN <<>>
    ELSE CharBytes(encoding, Head(str)) \o Encode(encoding, Tail(str))

\* bytes.decode: the character whose bytes the bytes b start with. Under
\* raw_unicode_escape a backslash followed by u starts an escape of four
\* hexadecimal digits (here those of the euro sign, the one character of the
\* model beyond Latin-1) and is no character by itself.
IsPrefix(p, b) == Len(p) <= Len(b) /\ SubSeq(b, 1, Len(p)) = p

StartsEscape(encoding, b) ==
    encoding = "raw_unicode_escape" /\ IsPrefix(<<"5c", "75">>, b)

FirstChars(encoding, b) ==
    {c \in ByteChars :
        /\ CharBytes(encoding, c) # <<>>
        /\ IsPrefix(CharBytes(encoding, c), b)
        /\ StartsEscape(encoding, b) => c = Euro}

RECURSIVE CanDecode(_, _)
CanDecode(encoding, b) ==
    \/ b = <<>>
    \/ /\ FirstChars(encoding, b) # {}
       /\ \A c \in FirstChars(encoding, b) :
              CanDecode(encoding,
                        SubSeq(b, Len(CharBytes(encoding, c)) + 1, Len(b)))

RECURSIVE Decode(_, _)
DecodeFrom(encoding, b, c) ==
    <<c>> \o Decode(encoding, SubSeq(b, Len(CharBytes(encoding, c)) + 1, Len(b)))

Decode(encoding, b) ==
    IF b = <<>> THEN <<>>
    ELSE DecodeFrom(encoding, b, CHOOSE c \in FirstChars(encoding, b) : TRUE)

\* Bytes.__init__
NewBytes(encoding) == [kind |-> "Bytes", encoding |-> encoding]

\* Bytes.read: value.encode(self.encoding)
BytesRead(rule, value) ==
    IF ~IsStr(value)
    THEN Raised(rule, "AttributeError", value)
    ELSE IF ~CanEncode(rule.encoding, value)
    THEN Raised(rule, "UnicodeEncodeError", value)
    ELSE Returned(rule, Bytes(Encode(rule.encoding, value)))

\* (BytesWriteAscii: a write that decodes as ASCII whatever the encoding)
BytesWriteAscii(rule, value) ==
    IF ~IsBytes(value)
    THEN Raised(rule, "AttributeError", value)
    ELSE IF ~CanDecode("ascii", Body(value))
    THEN Raised(rule, "UnicodeDecodeError", value)
    ELSE Returned(rule, Decode("ascii", Body(value)))

\* Bytes.write: value.decode(self.encoding)
BytesWrite(rule, value) ==
    IF ~IsBytes(value)
    THEN Raised(rule, "AttributeError", value)
    ELSE IF ~CanDecode(rule.encoding, Body(value))
    THEN Raised(rule, "UnicodeDecodeError", value)
    ELSE Returned(rule, Decode(rule.encoding, Body(value)))

\* (RuleWriteStateless: a write that validates with a copy of the rule and
\* leaves the rule itself as it was)
RuleWriteStateless(rule, value) == [RuleApply(rule, value) EXCEPT !.rule = rule]

\* Rule.read and Rule.write, which Bytes overrides and no other rule of the
\* model
RuleRead(rule, value) ==
    IF rule.kind = "Bytes" THEN BytesRead(rule, value)
    ELSE RuleApply(rule, value)
RuleWrite(rule, value) ==
    IF rule.kind = "Bytes" THEN BytesWrite(rule, value)
    ELSE RuleApply(rule, value)

----------------------------------------------------------------------------
(* The pipeline: Rigidity.__init__, validate_read, validate_write *)

\* A Python list as the function on its indices
List(seq) == [i \in 0..(Len(seq) - 1) |-> seq[i + 1]]

\* range(0, n), in iteration order
Range(n) == [i \in 1..n |-> i - 1]

\* The rules object of the caller: the keys in iteration order, and the
\* chain of each
ListRules(chains) == [order |-> Range(Len(chains)), chain |-> List(chains)]
DictRules(names, chains) ==
    [order |-> names,
     chain |-> [k \in {names[i] : i \in 1..Len(names)} |->
                  chains[CHOOSE i \in 1..Len(names) : names[i] = k]]]

\* self.keys as __init__ sets it: range(0, len(rules)) for a list, and
\* rules.keys() for a dict, which is a view of the dict and not a copy
InitKeys(shape, rls) ==
    IF shape = "dict"
    THEN [kind |-> "view", stop |-> 0]
    ELSE [kind |-> "range", stop |-> Len(rls.order)]

\* The keys `for key in self.keys` runs through
KeysOf(ks, rls) == IF ks.kind = "range" THEN Range(ks.stop) ELSE rls.order

KeySet(ks, rls) == {KeysOf(ks, rls)[i] : i \in 1..Len(KeysOf(ks, rls))}

\* The exception of row[key] for a key the row does not have
LookupError(ks) == IF ks.kind = "range" THEN "IndexError" ELSE "KeyError"

\* The record of one call of a rule: which rule of which chain (and of what
\* class), what it was given, and what came of it
Call(key, i, value, r) ==
    [key |-> key, idx |-> i, rule |-> r.rule.kind, input |-> value,
     outcome |-> r.outcome, output |-> r.value]

\* rule.read(value) in validate_read, rule.write(value) in validate_write
RuleCall(dir, rule, value) ==
    IF dir = "read" THEN RuleRead(rule, value) ELSE RuleWrite(rule, value)

\* for rule in self.rules[key]: value = rule.read(value)  (or rule.write)
\* ChainFold is the loop from the i-th rule on, ChainStep what follows the
\* call r of the i-th rule: an exception leaves the loop.  The log lists the
\* calls made.
RECURSIVE ChainFold(_, _, _, _, _, _)
RECURSIVE ChainStep(_, _, _, _, _, _, _)
\* (ChainStepRawValue: a loop that gives every rule the raw field and keeps
\* what the last rule returned)
ChainStepRawValue(dir, key, chain, i, value, log, r) ==
    IF r.outcome = "ok"
    THEN ChainFold(dir, key, [chain EXCEPT ![i] = r.rule], i + 1,
                   IF i < Len(chain) THEN value ELSE r.value,
                   Append(log, Call(key, i, value, r)))
    ELSE [outcome |-> r.outcome, value |-> value,
          chain |-> [chain EXCEPT ![i] = r.rule],
          log |-> Append(log, Call(key, i, value, r))]

ChainStep(dir, key, chain, i, value, log, r) ==
    IF r.outcome = "ok"
    THEN ChainFold(dir, key, [chain EXCEPT ![i] = r.rule], i + 1, r.value,
                   Append(log, Call(key, i, value, r)))
    ELSE [outcome |-> r.outcome, value |-> value,
          chain |-> [chain EXCEPT ![i] = r.rule],
          log |-> Append(log, Call(key, i, value, r))]

ChainFold(dir, key, chain, i, value, log) ==
    IF i > Len(chain)
    THEN [outcome |-> "ok", value |-> value, chain |-> chain, log |-> log]
    ELSE ChainStep(dir, key, chain, i, value, log,
                   RuleCall(dir, chain[i], value))

\* The `except` clauses around rule.read and rule.write: validate_read has one
\* for ValueError and one for IndexError, validate_write one for ValueError
Caught(dir, exc) ==
    exc = "ValueError" \/ (dir = "read" /\ exc = "IndexError")

\* What the `except` clause prints before it raises the exception again:
\* under DISPLAY_SIMPLE the column key, the row as it stands and the rule
Diagnostic(dir, key, row, c) ==
    IF display = DISPLAY_SIMPLE /\ Caught(dir, c.outcome)
    THEN <<[error |-> c.outcome, key |-> key, row |-> row,
            rule |-> c.log[Len(c.log)].idx]>>
    ELSE <<>>

\* for key in self.keys: value = row[key]; <the chain>; row[key] = value
\* KeysFold is the loop from the j-th key on, KeysStep what follows the chain
\* c of that key.  row[key] raises for a key the row lacks, self.rules[key]
\* for a key the rules lack.
RECURSIVE KeysFold(_, _, _, _, _, _, _)
RECURSIVE KeysStep(_, _, _, _, _, _, _, _)
\* (KeysStepNextColumn: a loop that catches DropRow around one column's
\* chain and goes on with the next column)
KeysStepNextColumn(dir, ks, order, j, row, rls, log, c) ==
    IF c.outcome \in {"ok", "DropRow"}
    THEN KeysFold(dir, ks, order, j + 1, [row EXCEPT ![order[j]] = c.value],
                  [rls EXCEPT !.chain[order[j]] = c.chain], c.log)
    ELSE [outcome |-> c.outcome, row |-> row,
          rules |-> [rls EXCEPT !.chain[order[j]] = c.chain], log |-> c.log,
          printed |-> Diagnostic(dir, order[j], row, c)]

\* (KeysStepRollsBack: a loop that, when a chain raises, puts the rules of
\* that chain back as they were before the chain began)
KeysStepRollsBack(dir, ks, order, j, row, rls, log, c) ==
    IF c.outcome = "ok"
    THEN KeysFold(dir, ks, order, j + 1, [row EXCEPT ![order[j]] = c.value],
                  [rls EXCEPT !.chain[order[j]] = c.chain], c.log)
    ELSE [outcome |-> c.outcome, row |-> row, rules |-> rls, log |-> c.log,
          printed |-> Diagnostic(dir, order[j], row, c)]

KeysStep(dir, ks, order, j, row, rls, log, c) ==
    IF c.outcome = "ok"
    THEN KeysFold(dir, ks, order, j + 1, [row EXCEPT ![order[j]] = c.value],
                  [rls EXCEPT !.chain[order[j]] = c.chain], c.log)
    ELSE [outcome |-> c.outcome, row |-> row,
          rules |-> [rls EXCEPT !.chain[order[j]] = c.chain], log |-> c.log,
          printed |-> Diagnostic(dir, order[j], row, c)]

KeysFold(dir, ks, order, j, row, rls, log) ==
    IF j > Len(order)
    THEN [outcome |-> "ok", row |-> row, rules |-> rls, log |-> log,
          printed |-> <<>>]
    ELSE IF order[j] \notin DOMAIN row
    THEN [outcome |-> LookupError(ks), row |-> row, rules |-> rls, log |-> log,
          printed |-> <<>>]
    ELSE IF order[j] \notin DOMAIN rls.chain
    THEN [outcome |-> "IndexError", row |-> row, rules |-> rls, log |-> log,
          printed |-> <<>>]
    ELSE KeysStep(dir, ks, order, j, row, rls, log,
                  ChainFold(dir, order[j], rls.chain[order[j]], 1,
                            row[order[j]], log))

\* validate_read(row) and validate_write(row) on a list or dict row: the
\* outcome ("ok" or the exception raised), the row object afterwards (the
\* value returned when the outcome is "ok"), the rules afterwards, and the
\* calls of rules made.
\* (ActiveOnly: a validation that builds the row it returns from the active
\* columns alone)
ActiveOnly(v, ks, rls) ==
    [v EXCEPT !.row = [k \in DOMAIN v.row \cap KeySet(ks, rls) |-> v.row[k]]]

ValidateReadActiveOnly(row, ks, rls) ==
    ActiveOnly(KeysFold("read", ks, KeysOf(ks, rls), 1, row, rls, <<>>), ks, rls)

ValidateWriteActiveOnly(row, ks, rls) ==
    ActiveOnly(KeysFold("write", ks, KeysOf(ks, rls), 1, row, rls, <<>>), ks, rls)

ValidateRead(row, ks, rls) ==
    KeysFold("read", ks, KeysOf(ks, rls), 1, row, rls, <<>>)

ValidateWrite(row, ks, rls) ==
    KeysFold("write", ks, KeysOf(ks, rls), 1, row, rls, <<>>)

----------------------------------------------------------------------------
(* The wrapper's row production and consumption *)

\* if not isinstance(row, (list, dict)): row = list(row)
\* IsMutable is the test, WorkingType the class of the row the validation
\* works on and returns, CallerRow what the object the caller passed holds
\* when the validation is over: a list or dict was assigned to in place, the
\* copy of anything else was
IsMutable(t) == t \in {"list", "dict"}

WorkingType(t) == IF IsMutable(t) THEN t ELSE "list"

\* (CallerRowInPlace: a validation that assigns to the row it was given)
CallerRowInPlace(t, row, v) == v.row

\* (CallerRowAtomic: a validation that assigns to the row it was given only
\* when every column has passed)
CallerRowAtomic(t, row, v) == IF IsMutable(t) /\ v.outcome = "ok" THEN v.row ELSE row

CallerRow(t, row, v) == IF IsMutable(t) THEN v.row ELSE row

\* One call of validate_read or validate_write made by an operation: the row
\* given, the outcome, the row the validation worked on as it is afterwards
\* and its class, the calls of rules made, what was printed, and what the
\* caller's own row object holds afterwards
Step(row, v) ==
    [row |-> row, outcome |-> v.outcome, out |-> v.row, log |-> v.log,
     printed |-> v.printed, type |-> WorkingType(rowtype),
     caller |-> CallerRow(rowtype, row, v)]

\* What a read operation gives its caller: a row, or the exception raised
Produced(v, src, steps) ==
    [outcome |-> v.outcome, value |-> IF v.outcome = "ok" THEN v.row ELSE <<>>,
     source |-> src, rules |-> v.rules, steps |-> steps]

Exhausted(rls, steps) ==
    [outcome |-> "StopIteration", value |-> <<>>, source |-> <<>>,
     rules |-> rls, steps |-> steps]

\* __next__: return self.validate_read(next(self.csvobj)), and on DropRow
\* return next(self).  next(self.csvobj) raises StopIteration at the end.
\* NextStep is what follows the validation v of the row fetched.
RECURSIVE NextFold(_, _, _, _)
RECURSIVE NextStep(_, _, _, _)
\* (NextStepCatchesAll: __next__ with `except Exception: return next(self)`)
NextStepCatchesAll(src, ks, steps, v) ==
    IF v.outcome # "ok"
    THEN NextFold(Tail(src), ks, v.rules, Append(steps, Step(Head(src), v)))
    ELSE Produced(v, Tail(src), Append(steps, Step(Head(src), v)))

\* (NextStepNoRetry: __next__ without its `except DropRow` clause)
NextStepNoRetry(src, ks, steps, v) ==
    Produced(v, Tail(src), Append(steps, Step(Head(src), v)))

NextStep(src, ks, steps, v) ==
    IF v.outcome = "DropRow"
    THEN NextFold(Tail(src), ks, v.rules, Append(steps, Step(Head(src), v)))
    ELSE Produced(v, Tail(src), Append(steps, Step(Head(src), v)))

NextFold(src, ks, rls, steps) ==
    IF src = <<>>
    THEN Exhausted(rls, steps)
    ELSE NextStep(src, ks, steps, ValidateRead(Head(src), ks, rls))

\* One resumption of the generator of __iter__, up to its next yield:
\* for row in iter(self.csvobj): try: yield self.validate_read(row)
\*                               except DropRow: continue
RECURSIVE IterFold(_, _, _, _)
RECURSIVE IterBody(_, _, _, _)
\* (IterBodyNoExcept: the generator without its `except DropRow` clause)
IterBodyNoExcept(src, ks, steps, v) ==
    Produced(v, Tail(src), Append(steps, Step(Head(src), v)))

\* (IterBodyStopsAtDrop: the generator with `break` in its `except DropRow`
\* clause)
IterBodyStopsAtDrop(src, ks, steps, v) ==
    IF v.outcome = "DropRow"
    THEN Exhausted(v.rules, Append(steps, Step(Head(src), v)))
    ELSE Produced(v, Tail(src), Append(steps, Step(Head(src), v)))

IterBody(src, ks, steps, v) ==
    IF v.outcome = "DropRow"
    THEN IterFold(Tail(src), ks, v.rules, Append(steps, Step(Head(src), v)))
    ELSE Produced(v, Tail(src), Append(steps, Step(Head(src), v)))

IterFold(src, ks, rls, steps) ==
    IF src = <<>>
    THEN Exhausted(rls, steps)
    ELSE IterBody(src, ks, steps, ValidateRead(Head(src), ks, rls))

\* An entry of the sink: a call of the underlying writer
HeaderCall == [call |-> "writeheader", row |-> <<>>]
RowCall(row) == [call |-> "writerow", row |-> row]

\* writerow(row): try: self.csvobj.writerow(self.validate_write(row))
\*                except DropRow: return
\* WriterowDone is what follows the validation v.
\* (WriterowWritesDropped: a writerow that validates first and writes in a
\* `finally`, so that a dropped row is written as it stands)
WriterowWritesDropped(row, snk, v) ==
    [outcome |-> IF v.outcome = "DropRow" THEN "ok" ELSE v.outcome,
     sink |-> IF v.outcome \in {"ok", "DropRow"}
              THEN Append(snk, RowCall(v.row))
              ELSE snk,
     rules |-> v.rules,
     steps |-> <<Step(row, v)>>]

WriterowDone(row, snk, v) ==
    [outcome |-> IF v.outcome = "DropRow" THEN "ok" ELSE v.outcome,
     sink |-> IF v.outcome = "ok" THEN Append(snk, RowCall(v.row)) ELSE snk,
     rules |-> v.rules,
     steps |-> <<Step(row, v)>>]

WriterowOn(row, ks, rls, snk) ==
    WriterowDone(row, snk, ValidateWrite(row, ks, rls))

\* writerows(rows): for row in rows: self.writerow(row)
\* WriterowsStep is what follows the call w of writerow on the first row.
RECURSIVE WriterowsFold(_, _, _, _, _)
RECURSIVE WriterowsStep(_, _, _, _)
\* (WriterowsStopsAtDrop: a writerows that lets DropRow end its loop)
WriterowsStopsAtDrop(rows, ks, steps, w) ==
    IF w.outcome = "ok" /\ w.steps[1].outcome # "DropRow"
    THEN WriterowsFold(Tail(rows), ks, w.rules, w.sink, steps \o w.steps)
    ELSE [outcome |-> w.outcome, sink |-> w.sink, rules |-> w.rules,
          steps |-> steps \o w.steps]

WriterowsStep(rows, ks, steps, w) ==
    IF w.outcome = "ok"
    THEN WriterowsFold(Tail(rows), ks, w.rules, w.sink, steps \o w.steps)
    ELSE [outcome |-> w.outcome, sink |-> w.sink, rules |-> w.rules,
          steps |-> steps \o w.steps]

WriterowsFold(rows, ks, rls, snk, steps) ==
    IF rows = <<>>
    THEN [outcome |-> "ok", sink |-> snk, rules |-> rls, steps |-> steps]
    ELSE WriterowsStep(rows, ks, steps, WriterowOn(Head(rows), ks, rls, snk))

----------------------------------------------------------------------------
(* The inputs the model draws from *)

SeqsUpTo(S, n) == UNION {[1..k -> S] : k \in 0..n}

FieldValues == {S_a, S_sp_a}

Names == <<"a", "b", "c", "d", "e">>
NameSet(n) == {Names[i] : i \in 1..n}

ListRows == {List(s) : s \in SeqsUpTo(FieldValues, MaxCols)}
DictRows == UNION {[NameSet(w) -> FieldValues] : w \in 0..MaxCols}
RowsOf(ks) == IF ks.kind = "range" THEN ListRows ELSE DictRows

\* The chains a column is configured with
Chains ==
    { <<>>,
      <<NewReplaceValue([x \in {S_sp_a} |-> S_a_sp],
                        ReplaceValue_ACTION_DROPROW, <<>>),
        NewStrip,
        NewUnique(Unique_ACTION_ERROR)>> }

ListConfigs == {ListRules(cs) : cs \in SeqsUpTo(Chains, MaxCols)}
DictConfigs ==
    {DictRules(SubSeq(Names, 1, Len(cs)), cs) : cs \in SeqsUpTo(Chains, MaxCols)}

----------------------------------------------------------------------------
(* The state machine *)

Result(op, outcome, value, arg, steps) ==
    [op |-> op, outcome |-> outcome, value |-> value, arg |-> arg,
     steps |-> steps]

\* Rigidity(csvobj, rules): the state when __init__ returns
Init ==
    \E shape \in {"list", "dict"} :
        /\ mode \in {"reader", "writer", "none"}
        /\ rules \in (IF shape = "list" THEN ListConfigs ELSE DictConfigs)
        /\ keys = InitKeys(shape, rules)
        /\ keys0 = KeysOf(keys, rules)
        /\ source \in (IF mode = "reader"
                       THEN SeqsUpTo(RowsOf(keys), MaxRows)
                       ELSE {<<>>})
        /\ sink = <<>>
        /\ handed = 0
        /\ gen = "none"
        /\ mutations = 0
        /\ result = Result("init", "ok", <<>>, <<>>, <<>>)
        /\ display = DISPLAY_NONE
        /\ rowtype = shape
        /\ inst = NoRule
        /\ history = <<>>
        /\ made = NoCall

\* writeheader(): self.csvobj.writeheader()
Writeheader ==
    /\ mode = "writer"
    /\ handed < MaxRows
    /\ handed' = handed + 1
    /\ sink' = Append(sink, HeaderCall)
    /\ result' = Result("writeheader", "ok", <<>>, <<>>, <<>>)
    /\ UNCHANGED <<mode, rules, keys, keys0, source, gen, mutations>>
    /\ UNCHANGED <<display, rowtype, inst, history, made>>

Writerow ==
    /\ mode = "writer"
    /\ handed < MaxRows
    /\ handed' = handed + 1
    /\ \E row \in RowsOf(keys) :
        \E w \in {WriterowOn(row, keys, rules, sink)} :
            /\ sink' = w.sink
            /\ rules' = w.rules
            /\ result' = Result("writerow", w.outcome, <<>>, row, w.steps)
    /\ UNCHANGED <<mode, keys, keys0, source, gen, mutations>>
    /\ UNCHANGED <<display, rowtype, inst, history, made>>

Writerows ==
    /\ mode = "writer"
    /\ \E rows \in SeqsUpTo(RowsOf(keys), MaxRows - handed) :
        /\ handed' = handed + Len(rows)
        /\ \E w \in {WriterowsFold(rows, keys, rules, sink, <<>>)} :
            /\ sink' = w.sink
            /\ rules' = w.rules
            /\ result' = Result("writerows", w.outcome, <<>>, rows, w.steps)
    /\ UNCHANGED <<mode, keys, keys0, source, gen, mutations>>
    /\ UNCHANGED <<display, rowtype, inst, history, made>>

\* A call of validate_write(row) by the caller
CallValidateWrite ==
    /\ mode = "none"
    /\ \E row \in RowsOf(keys) :
        \E v \in {ValidateWrite(row, keys, rules)} :
        /\ rules' = v.rules
        /\ result' = Result("validate_write", v.outcome,
                            IF v.outcome = "ok" THEN v.row ELSE <<>>,
                            row, <<Step(row, v)>>)
    /\ UNCHANGED <<mode, keys, keys0, source, sink, handed, gen, mutations>>
    /\ UNCHANGED <<display, rowtype, inst, history, made>>

\* A call of validate_read(row) by the caller
CallValidateRead ==
    /\ mode = "none"
    /\ \E row \in RowsOf(keys) :
        \E v \in {ValidateRead(row, keys, rules)} :
        /\ rules' = v.rules
        /\ result' = Result("validate_read", v.outcome,
                            IF v.outcome = "ok" THEN v.row ELSE <<>>,
                            row, <<Step(row, v)>>)
    /\ UNCHANGED <<mode, keys, keys0, source, sink, handed, gen, mutations>>
    /\ UNCHANGED <<display, rowtype, inst, history, made>>

\* skip(): return next(self.csvobj)
Skip ==
    /\ mode = "reader"
    /\ IF source = <<>>
       THEN /\ result' = Result("skip", "StopIteration", <<>>, <<>>, <<>>)
            /\ source' = source
       ELSE /\ result' = Result("skip", "ok", Head(source), <<>>, <<>>)
            /\ source' = Tail(source)
    /\ UNCHANGED <<mode, rules, keys, keys0, sink, handed, gen, mutations>>
    /\ UNCHANGED <<display, rowtype, inst, history, made>>

\* next(r)
ReadNext ==
    /\ mode = "reader"
    /\ \E n \in {NextFold(source, keys, rules, <<>>)} :
        /\ source' = n.source
        /\ rules' = n.rules
        /\ result' = Result("next", n.outcome, n.value, <<>>, n.steps)
    /\ UNCHANGED <<mode, keys, keys0, sink, handed, gen, mutations>>
    /\ UNCHANGED <<display, rowtype, inst, history, made>>

\* next(g) for the generator g = iter(r): a generator that has returned or
\* raised is finished and raises StopIteration from then on
IterStep ==
    /\ mode = "reader"
    /\ IF gen = "finished"
       THEN /\ result' = Result("iter", "StopIteration", <<>>, <<>>, <<>>)
            /\ UNCHANGED <<source, rules, gen>>
       ELSE \E n \in {IterFold(source, keys, rules, <<>>)} :
            /\ source' = n.source
            /\ rules' = n.rules
            /\ gen' = IF n.outcome = "ok" THEN "suspended" ELSE "finished"
            /\ result' = Result("iter", n.outcome, n.value, <<>>, n.steps)
    /\ UNCHANGED <<mode, keys, keys0, sink, handed, mutations>>
    /\ UNCHANGED <<display, rowtype, inst, history, made>>

\* The caller modifies the object it passed as `rules`, which self.rules is:
\* a list grows by append or shrinks by pop, a dict gets a new key or loses one
ListAppend(rls, c) ==
    [order |-> Range(Len(rls.order) + 1),
     chain |-> [i \in 0..Len(rls.order) |->
                  IF i < Len(rls.order) THEN rls.chain[i] ELSE c]]

ListPop(rls) ==
    [order |-> Range(Len(rls.order) - 1),
     chain |-> [i \in 0..(Len(rls.order) - 2) |-> rls.chain[i]]]

DictSet(rls, k, c) ==
    [order |-> Append(rls.order, k),
     chain |-> [x \in DOMAIN rls.chain \cup {k} |->
                  IF x = k THEN c ELSE rls.chain[x]]]

DictDel(rls, k) ==
    [order |-> SelectSeq(rls.order, LAMBDA x : x # k),
     chain |-> [x \in DOMAIN rls.chain \ {k} |-> rls.chain[x]]]

MutateRules ==
    /\ mutations < MaxMutations
    /\ mutations' = mutations + 1
    /\ \E m \in {"grow", "shrink"} :
        IF keys.kind = "range"
        THEN IF m = "grow"
             THEN \E c \in Chains : rules' = ListAppend(rules, c)
             ELSE Len(rules.order) > 0 /\ rules' = ListPop(rules)
        ELSE IF m = "grow"
             THEN \E c \in Chains :
                  \E k \in NameSet(MaxCols + 1) \ DOMAIN rules.chain :
                      rules' = DictSet(rules, k, c)
             ELSE \E k \in DOMAIN rules.chain : rules' = DictDel(rules, k)
    /\ result' = Result("mutate", "ok", <<>>, <<>>, <<>>)
    /\ UNCHANGED <<mode, keys, keys0, source, sink, handed, gen>>
    /\ UNCHANGED <<display, rowtype, inst, history, made>>

\* The chains of a pipeline whose rules fail in each of the ways a rule
\* fails: ValueError (Integer), IndexError (ReplaceValue), Exception (Unique)
FailingChains ==
    Chains \cup
    { <<NewInteger(Integer_ACTION_ERROR)>>,
      <<NewReplaceValue([x \in {S_sp_a} |-> S_a_sp], ReplaceValue_ACTION_ERROR,
                        <<>>)>>,
      <<NewStrip, NewUnique(Unique_ACTION_ERROR)>> }

\* Rigidity(csvobj, rules, display) with either display mode, for a caller
\* that calls validate_read and validate_write
InitDisplay ==
    \E shape \in {"list", "dict"} :
        /\ mode = "none"
        /\ rules \in (IF shape = "list"
                      THEN {ListRules(cs) : cs \in SeqsUpTo(FailingChains, MaxCols)}
                      ELSE {DictRules(SubSeq(Names, 1, Len(cs)), cs) :
                                cs \in SeqsUpTo(FailingChains, MaxCols)})
        /\ keys = InitKeys(shape, rules)
        /\ keys0 = KeysOf(keys, rules)
        /\ source = <<>>
        /\ sink = <<>>
        /\ handed = 0
        /\ gen = "none"
        /\ mutations = 0
        /\ result = Result("init", "ok", <<>>, <<>>, <<>>)
        /\ display \in {DISPLAY_NONE, DISPLAY_SIMPLE}
        /\ rowtype = shape
        /\ inst = NoRule
        /\ history = <<>>
        /\ made = NoCall

\* Rigidity(csvobj, rules) with list rules, for a caller whose rows are lists
\* or tuples
InitTuple ==
    /\ mode \in {"writer", "none"}
    /\ rules \in ListConfigs
    /\ keys = InitKeys("list", rules)
    /\ keys0 = KeysOf(keys, rules)
    /\ source = <<>>
    /\ sink = <<>>
    /\ handed = 0
    /\ gen = "none"
    /\ mutations = 0
    /\ result = Result("init", "ok", <<>>, <<>>, <<>>)
    /\ display = DISPLAY_NONE
    /\ rowtype \in {"list", "tuple"}
    /\ inst = NoRule
    /\ history = <<>>
    /\ made = NoCall

NextCaller == Writerow \/ Writerows \/ CallValidateWrite \/ CallValidateRead

SpecTuple == InitTuple /\ [][NextCaller]_vars

NextValidate == CallValidateWrite \/ CallValidateRead

SpecDisplay == InitDisplay /\ [][NextValidate]_vars

\* A rule instance on its own, called by the caller ------------------------

\* The rules that keep state from one call to the next
Stateful(rule) == rule.kind \in {"Unique", "Cary"}

\* The constructor calls a caller makes, and the instance each one makes
Constructions ==
    {[kind |-> "Unique", action |-> a] :
        a \in {Unique_ACTION_ERROR, Unique_ACTION_DROPROW, ACTION_UNKNOWN}}
    \cup {[kind |-> "Integer", action |-> a] :
        a \in {Integer_ACTION_ERROR, Integer_ACTION_ZERO,
               Integer_ACTION_DROPROW, ACTION_UNKNOWN}}
    \cup {[kind |-> "Float", action |-> a] :
        a \in {Float_ACTION_ERROR, Float_ACTION_ZERO, Float_ACTION_DROPROW,
               ACTION_UNKNOWN}}
    \cup {[kind |-> "UpcA", strict |-> b] : b \in BOOLEAN}
    \cup {[kind |-> "ReplaceValue", replacements |-> [x \in {S_sp_a} |-> S_a_sp],
           missing_action |-> a, default_value |-> S_default] :
        a \in {ReplaceValue_ACTION_DROPROW, ReplaceValue_ACTION_DEFAULT_VALUE,
               ReplaceValue_ACTION_PASSTHROUGH, ReplaceValue_ACTION_ERROR,
               ReplaceValue_ACTION_BLANK, ACTION_UNKNOWN}}
    \cup {[kind |-> "Cary", action |-> a, default |-> S_default] :
        a \in {Cary_ACTION_ERROR, Cary_ACTION_DEFAULT, Cary_ACTION_DROPROW}}
    \cup {[kind |-> "Boolean", allow_null |-> n, action |-> a, default |-> d] :
        n \in BOOLEAN,
        a \in {Boolean_ACTION_ERROR, Boolean_ACTION_DEFAULT,
               Boolean_ACTION_DROPROW, ACTION_UNKNOWN},
        d \in {None, False}}
    \cup {[kind |-> "Bytes", encoding |-> e] : e \in Encodings}

Construct(c) ==
    CASE c.kind = "Unique" -> NewUnique(c.action)
      [] c.kind = "Integer" -> NewInteger(c.action)
      [] c.kind = "Float" -> NewFloat(c.action)
      [] c.kind = "UpcA" -> NewUpcA(c.strict)
      [] c.kind = "Boolean" -> NewBoolean(c.allow_null, c.action, c.default)
      [] c.kind = "Cary" -> NewCary(c.action, c.default)
      [] c.kind = "Bytes" -> NewBytes(c.encoding)
      [] c.kind = "ReplaceValue" ->
            NewReplaceValue(c.replacements, c.missing_action, c.default_value)

\* The characters of the values given to Integer and Float, and the values:
\* None and the strings of up to MaxLen of the characters
NumChars == {"0", "1", "-", ".", " ", "a"}
NumInputs == SeqsUpTo(NumChars, MaxLen) \cup {None}

\* The values given to UpcA: codes whose last MaxLen characters are any
\* digits or a letter, after nothing or after enough digits to make codes of
\* about UPC_LENGTH characters
UpcChars == {DigitChars[i] : i \in 1..Len(DigitChars)} \cup {"a"}
UpcPrefixes ==
    {<<>>, Zeros(UPC_LENGTH - MaxLen), <<"1">> \o Zeros(UPC_LENGTH - MaxLen - 1),
     Zeros(UPC_LENGTH + 1 - MaxLen)}
UpcInputs == {p \o t : p \in UpcPrefixes, t \in SeqsUpTo(UpcChars, MaxLen)}

\* The values given to Boolean: the tokens in every mix of upper and lower
\* case, strings that are no tokens, and None
CaseVariants(token) ==
    {[i \in 1..Len(token) |-> IF i \in U THEN UpperChar(token[i]) ELSE token[i]] :
        U \in SUBSET (1..Len(token))}
NoTokens == {<<"a">>, <<"t", "r">>, <<"2">>, <<" ", "t", "r", "u", "e">>, <<"n", "u", "l">>, <<"o", "n">>}
BoolInputs ==
    UNION {CaseVariants(t) : t \in TrueTokens \cup FalseTokens \cup NullTokens}
    \cup NoTokens \cup {None}

\* The values given to Bytes: the strings of up to MaxLen of three
\* characters, a backslash, the text of an escape and the start of one, bytes
\* that are and that are not the bytes of a string, and None
BytesInputs ==
    SeqsUpTo({"a", "é", Euro}, MaxLen)
    \cup {<<"\\">>, <<"\\", "u", "2", "0", "a", "c">>, <<"\\", "u", "2", "0">>}
    \cup {Bytes(<<>>), Bytes(<<"61">>), Bytes(<<"c3">>), Bytes(<<"e9">>)}
    \cup {None}

\* The values a caller gives to a rule
InputsOf(rule) ==
    CASE rule.kind = "Unique" -> {S_a, S_sp_a, S_a_sp}
      [] rule.kind \in {"Integer", "Float"} -> NumInputs
      [] rule.kind = "UpcA" -> UpcInputs
      [] rule.kind = "Boolean" -> BoolInputs
      [] rule.kind = "Cary" -> {<<>>, S_a, S_sp_a}
      [] rule.kind = "Bytes" -> BytesInputs
      [] rule.kind = "ReplaceValue" -> {S_a, S_sp_a, S_a_sp, <<>>, None}

InitRule ==
    /\ mode = "none"
    /\ rules = ListRules(<<>>)
    /\ keys = InitKeys("list", rules)
    /\ keys0 = KeysOf(keys, rules)
    /\ source = <<>>
    /\ sink = <<>>
    /\ handed = 0
    /\ gen = "none"
    /\ mutations = 0
    /\ result = Result("init", "ok", <<>>, <<>>, <<>>)
    /\ display = DISPLAY_NONE
    /\ rowtype = "list"
    /\ made \in Constructions
    /\ inst = Construct(made)
    /\ history = <<>>

\* The calls made on an instance: one on a rule without state (a second call
\* would find the instance as the first found it), MaxCalls on one with
\* state, two on a Bytes, whose write is given what its read returned
CallsOf(rule) ==
    IF Stateful(rule) THEN MaxCalls
    ELSE IF rule.kind = "Bytes" THEN 2
    ELSE 1

\* A call that is over, as the calls after it remember it
Earlier(res) ==
    [op |-> res.op, outcome |-> res.outcome, value |-> res.value, arg |-> res.arg]

\* What the last call returned, which the caller may pass on to a Bytes
ReadBack ==
    IF inst.kind = "Bytes" /\ result.op = "read" /\ result.outcome = "ok"
    THEN {result.value}
    ELSE {}

\* rule.apply(value) on the instance; history keeps the values the instance
\* was given
CallApply ==
    /\ inst # NoRule
    /\ Len(history) < CallsOf(inst)
    /\ \E value \in InputsOf(inst) :
        \E r \in {RuleApply(inst, value)} :
            /\ inst' = r.rule
            /\ history' = Append(history, value)
            /\ result' = Result("apply", r.outcome, r.value, value,
                                Append(result.steps, Earlier(result)))
    /\ UNCHANGED <<mode, rules, keys, keys0, source, sink, handed, gen,
                   mutations, display, rowtype, made>>

\* rule.read(value) on the instance
CallRead ==
    /\ inst # NoRule
    /\ Len(history) < CallsOf(inst)
    /\ \E value \in InputsOf(inst) :
        \E r \in {RuleRead(inst, value)} :
            /\ inst' = r.rule
            /\ history' = Append(history, value)
            /\ result' = Result("read", r.outcome, r.value, value,
                                Append(result.steps, Earlier(result)))
    /\ UNCHANGED <<mode, rules, keys, keys0, source, sink, handed, gen,
                   mutations, display, rowtype, made>>

\* rule.write(value) on the instance
CallWrite ==
    /\ inst # NoRule
    /\ Len(history) < CallsOf(inst)
    /\ \E value \in InputsOf(inst) \cup ReadBack :
        \E r \in {RuleWrite(inst, value)} :
            /\ inst' = r.rule
            /\ history' = Append(history, value)
            /\ result' = Result("write", r.outcome, r.value, value,
                                Append(result.steps, Earlier(result)))
    /\ UNCHANGED <<mode, rules, keys, keys0, source, sink, handed, gen,
                   mutations, display, rowtype, made>>

NextRule == CallApply \/ CallRead \/ CallWrite

SpecRule == InitRule /\ [][NextRule]_vars

\* A reader and the loops of its caller -----------------------------------

\* `for row in r: ...`: the loop makes a generator with iter(r) and resumes
\* it until it raises; ForFold is the loop from one resumption on, ForStep
\* what follows the resumption n.  The loop ends on StopIteration; any other
\* exception leaves it.  The value is the list of the rows the body saw.
RECURSIVE ForFold(_, _, _, _, _)
ForStep(ks, rows, steps, n) ==
    IF n.outcome = "ok"
    THEN ForFold(n.source, ks, n.rules, Append(rows, n.value), steps \o n.steps)
    ELSE [outcome |-> n.outcome, value |-> rows, source |-> n.source,
          rules |-> n.rules, steps |-> steps \o n.steps]

ForFold(src, ks, rls, rows, steps) ==
    ForStep(ks, rows, steps, IterFold(src, ks, rls, <<>>))

\* `while True: rows.append(next(r))`: the same with __next__
RECURSIVE WhileFold(_, _, _, _, _)
WhileStep(ks, rows, steps, n) ==
    IF n.outcome = "ok"
    THEN WhileFold(n.source, ks, n.rules, Append(rows, n.value), steps \o n.steps)
    ELSE [outcome |-> n.outcome, value |-> rows, source |-> n.source,
          rules |-> n.rules, steps |-> steps \o n.steps]

WhileFold(src, ks, rls, rows, steps) ==
    WhileStep(ks, rows, steps, NextFold(src, ks, rls, <<>>))

\* The chains of a reader whose Unique rules are followed by rules that drop
\* and rules that fail
ReadChains ==
    { <<>>,
      <<NewStrip, NewUnique(Unique_ACTION_ERROR)>>,
      <<NewUnique(Unique_ACTION_DROPROW),
        NewReplaceValue([x \in {S_sp_a} |-> S_a_sp],
                        ReplaceValue_ACTION_DROPROW, <<>>)>>,
      <<NewInteger(Integer_ACTION_ERROR)>> }

\* The rows of a source that has a field for every column of the rules
FullRows(ks, rls) ==
    IF ks.kind = "range"
    THEN {List(s) : s \in [1..Len(rls.order) -> FieldValues]}
    ELSE [KeySet(ks, rls) -> FieldValues]

\* Rigidity(csv.reader(f), rules)
InitRead ==
    \E shape \in {"list", "dict"} :
        /\ mode = "reader"
        /\ rules \in (IF shape = "list"
                      THEN {ListRules(cs) : cs \in SeqsUpTo(ReadChains, MaxCols)}
                      ELSE {DictRules(SubSeq(Names, 1, Len(cs)), cs) :
                                cs \in SeqsUpTo(ReadChains, MaxCols)})
        /\ keys = InitKeys(shape, rules)
        /\ keys0 = KeysOf(keys, rules)
        /\ source \in SeqsUpTo(FullRows(keys, rules), MaxRows)
        /\ sink = <<>>
        /\ handed = 0
        /\ gen = "none"
        /\ mutations = 0
        /\ result = Result("init", "ok", <<>>, <<>>, <<>>)
        /\ display = DISPLAY_NONE
        /\ rowtype = shape
        /\ inst = NoRule
        /\ history = <<>>
        /\ made = NoCall

\* for row in r: rows.append(row)
ForLoop ==
    /\ mode = "reader"
    /\ \E l \in {ForFold(source, keys, rules, <<>>, <<>>)} :
        /\ source' = l.source
        /\ rules' = l.rules
        /\ result' = Result("for", l.outcome, l.value, <<>>, l.steps)
    /\ UNCHANGED <<mode, keys, keys0, sink, handed, gen, mutations>>
    /\ UNCHANGED <<display, rowtype, inst, history, made>>

\* while True: rows.append(next(r))
WhileLoop ==
    /\ mode = "reader"
    /\ \E l \in {WhileFold(source, keys, rules, <<>>, <<>>)} :
        /\ source' = l.source
        /\ rules' = l.rules
        /\ result' = Result("while", l.outcome, l.value, <<>>, l.steps)
    /\ UNCHANGED <<mode, keys, keys0, sink, handed, gen, mutations>>
    /\ UNCHANGED <<display, rowtype, inst, history, made>>

NextReader == ReadNext \/ IterStep \/ ForLoop \/ WhileLoop

SpecRead == InitRead /\ [][NextReader]_vars

\* The operations of the wrapper
Next ==
    \/ Writeheader
    \/ Writerow
    \/ Writerows
    \/ CallValidateWrite
    \/ CallValidateRead
    \/ Skip
    \/ ReadNext
    \/ IterStep

Spec == Init /\ [][Next]_vars

\* The operations of the wrapper, and a caller that modifies the rules object
NextMut == Next \/ MutateRules

SpecMut == Init /\ [][NextMut]_vars

----------------------------------------------------------------------------
(* Properties *)

\* What validate_read gives on each row of src in turn, the first on rules
\* rls and each later one on the rules as the row before it left them
RECURSIVE ReadTrace(_, _, _)
ReadTrace(src, ks, rls) ==
    IF src = <<>>
    THEN <<>>
    ELSE CHOOSE t \in {<<v>> \o ReadTrace(Tail(src), ks, v.rules) :
                        v \in {ValidateRead(Head(src), ks, rls)}} : TRUE

\* A read-next on source src, of whose rows the validations are t, that
\* validates n rows, leaves source src2 and gives its caller res
RowProduction(src, t, n, src2, res) ==
    /\ n <= Len(src)
    /\ src2 = SubSeq(src, n + 1, Len(src))
    /\ \A i \in 1..n : res.steps[i].row = src[i]
    /\ \A i \in 1..(n - 1) : t[i].outcome = "DropRow"
    /\ res.outcome # "DropRow"
    /\ IF n > 0 /\ t[n].outcome # "DropRow"
       THEN /\ res.outcome = t[n].outcome
            /\ res.outcome = "ok" => res.value = t[n].row
       ELSE /\ res.outcome = "StopIteration"
            /\ src2 = <<>>

\* C1: each read-next (__next__, and each resumption of a live generator of
\* __iter__) consumes the source rows in order up to and including the first
\* one whose validate_read does not raise DropRow and gives the caller that
\* row's validate_read result; the rows before it all raised DropRow; when no
\* such row is left it consumes the whole source and raises StopIteration;
\* DropRow itself is never what the caller gets.
C1_RowProduction ==
    [][(result'.op = "next" \/ (result'.op = "iter" /\ gen # "finished"))
       => \A t \in {ReadTrace(source, keys, rules)} :
            RowProduction(source, t, Len(result'.steps), source', result')]_vars

\* C1 happens: a read-next skipped a dropped row and returned the next one
C1_Witness ==
    /\ result.op \in {"next", "iter"}
    /\ Len(result.steps) = 2
    /\ result.steps[1].outcome = "DropRow"
    /\ result.outcome = "ok"

\* C2: a writerow of a row whose validate_write raises DropRow leaves the
\* calls the underlying writer has received as they were and returns normally.
C2_WritePathDrop ==
    [][(result'.op = "writerow"
        /\ ValidateWrite(result'.arg, keys, rules).outcome = "DropRow")
       => (sink' = sink /\ result'.outcome = "ok")]_vars

\* C2 happens: a row was written, and then a writerow dropped its row
C2_Witness ==
    /\ result.op = "writerow"
    /\ result.steps[1].outcome = "DropRow"
    /\ Len(sink) = 1
    /\ sink[1].call = "writerow"

\* The calls of rules that one validate_read or validate_write made, st being
\* its record: the rules of a chain are called in the order of the chain, the
\* first with the field of the row given, each later one with what the rule
\* before it returned; no rule is called twice; when the validation returns,
\* each active column holds what the last rule of its chain returned.
ChainOrder(st) ==
    /\ \A p \in 1..Len(st.log) :
        /\ st.log[p].idx \in 1..Len(rules.chain[st.log[p].key])
        /\ st.log[p].rule = rules.chain[st.log[p].key][st.log[p].idx].kind
        /\ IF st.log[p].idx = 1
           THEN st.log[p].input = st.row[st.log[p].key]
           ELSE /\ p > 1
                /\ st.log[p - 1].key = st.log[p].key
                /\ st.log[p - 1].idx = st.log[p].idx - 1
                /\ st.log[p - 1].outcome = "ok"
                /\ st.log[p].input = st.log[p - 1].output
        /\ \A q \in 1..Len(st.log) :
            (st.log[q].key = st.log[p].key /\ st.log[q].idx = st.log[p].idx)
            => q = p
    /\ st.outcome = "ok" =>
        \A k \in KeySet(keys, rules) :
            IF rules.chain[k] = <<>>
            THEN st.out[k] = st.row[k]
            ELSE \E p \in 1..Len(st.log) :
                    /\ st.log[p].key = k
                    /\ st.log[p].idx = Len(rules.chain[k])
                    /\ st.log[p].outcome = "ok"
                    /\ st.out[k] = st.log[p].output

\* C3: in every validate_read and validate_write (called directly, or by
\* writerow, writerows, __next__ and __iter__) the rules of a column's chain
\* are invoked in declaration order, the first on the raw field, every later
\* one on the output of the rule before it, and the value stored back into the
\* column is the output of the last rule.
C3_RuleChainOrder ==
    \A s \in 1..Len(result.steps) : ChainOrder(result.steps[s])

\* C3 happens: a validate_read ran a chain of three rules to its end, and the
\* first two rules changed the value they were given
C3_Witness ==
    /\ result.op = "validate_read"
    /\ result.outcome = "ok"
    /\ \E p \in 1..Len(result.steps[1].log) :
        /\ result.steps[1].log[p].idx = 3
        /\ result.steps[1].log[p - 1].input # result.steps[1].log[p - 1].output
        /\ result.steps[1].log[p - 2].input # result.steps[1].log[p - 2].output

\* C4: when a rule raises DropRow in a validate_read or validate_write, that
\* call of a rule is the last one the validation makes (no later rule of the
\* chain, no rule of a later column), and the validation raises DropRow to its
\* caller.
C4_DropRowAbortsRow ==
    \A s \in 1..Len(result.steps) :
        \A p \in 1..Len(result.steps[s].log) :
            result.steps[s].log[p].outcome = "DropRow" =>
                /\ p = Len(result.steps[s].log)
                /\ result.steps[s].outcome = "DropRow"
                /\ result.op \in {"validate_read", "validate_write"}
                   => result.outcome = "DropRow"

\* C4 happens: a validate_write of a two-column configuration raised DropRow
\* from the first rule of the first column, both chains holding rules and the
\* row holding both fields
C4_Witness ==
    /\ result.op = "validate_write"
    /\ result.outcome = "DropRow"
    /\ Len(KeysOf(keys, rules)) = 2
    /\ \A k \in KeySet(keys, rules) :
        rules.chain[k] # <<>> /\ k \in DOMAIN result.arg
    /\ Len(result.steps[1].log) = 1
    /\ result.steps[1].log[1].key = KeysOf(keys, rules)[1]

\* C5: no call of writeheader, writerow, writerows, __next__, a step of
\* __iter__ or skip raises DropRow to its caller.
C5_DropRowNeverEscapes ==
    result.op \in {"writeheader", "writerow", "writerows", "next", "iter", "skip"}
    => result.outcome # "DropRow"

\* C5 happens: a step of __iter__ validated rows that all raised DropRow and
\* ended the iteration without raising it
C5_Witness ==
    /\ result.op = "iter"
    /\ Len(result.steps) = 2
    /\ \A s \in 1..2 : result.steps[s].outcome = "DropRow"
    /\ result.outcome = "StopIteration"

\* What validate_write gives on each row of rows in turn, the first on rules
\* rls and each later one on the rules as the row before it left them
RECURSIVE WriteTrace(_, _, _)
WriteTrace(rows, ks, rls) ==
    IF rows = <<>>
    THEN <<>>
    ELSE CHOOSE t \in {<<v>> \o WriteTrace(Tail(rows), ks, v.rules) :
                        v \in {ValidateWrite(Head(rows), ks, rls)}} : TRUE

\* An outcome that is an exception other than DropRow
Failure(outcome) == outcome \notin {"ok", "DropRow"}

\* The index of the first of the validations t that did not raise DropRow,
\* or 0 when every one raised it
FirstSurvivor(t) ==
    IF \E i \in 1..Len(t) : t[i].outcome # "DropRow"
    THEN CHOOSE i \in 1..Len(t) :
            /\ t[i].outcome # "DropRow"
            /\ \A j \in 1..(i - 1) : t[j].outcome = "DropRow"
    ELSE 0

\* C6: a failure that is not DropRow is not recovered.  A writerow whose
\* validate_write fails raises that failure and leaves the calls the
\* underlying writer has received as they were.  A read-next (__next__, a
\* resumption of a live generator of __iter__) in which the first row that is
\* not dropped fails raises that failure, and the source is left at the row
\* after the failing one: no further row is fetched.
C6_FailureNotRecovered ==
    [][/\ result'.op = "writerow" =>
            \A v \in {ValidateWrite(result'.arg, keys, rules)} :
                Failure(v.outcome) =>
                    (result'.outcome = v.outcome /\ sink' = sink)
       /\ (result'.op = "next" \/ (result'.op = "iter" /\ gen # "finished")) =>
            \A t \in {ReadTrace(source, keys, rules)} :
                \A n \in {FirstSurvivor(t)} :
                    (n > 0 /\ Failure(t[n].outcome)) =>
                        /\ result'.outcome = t[n].outcome
                        /\ source' = SubSeq(source, n + 1, Len(source))
                        /\ Len(result'.steps) = n
      ]_vars

\* C6 happens: __next__ dropped a row, a rule (Unique, on a value met before)
\* failed on the row after it, and the caller got the failure
C6_Witness ==
    /\ result.op = "next"
    /\ result.outcome = "Exception"
    /\ Len(result.steps) = 2
    /\ result.steps[2].log[Len(result.steps[2].log)].outcome = "Exception"

\* Every active column's chain is empty
AllChainsEmpty == \A k \in KeySet(keys, rules) : rules.chain[k] = <<>>

\* C7, as stated: with every active column's chain empty, validate_read and
\* validate_write return a row equal to the row given, whatever the row.
C7_IdentityEveryRow ==
    (result.op \in {"validate_read", "validate_write"} /\ AllChainsEmpty)
    => (result.outcome = "ok" /\ result.value = result.arg)

\* C7, amended: with every active column's chain empty, validate_read and
\* validate_write return a row equal to the row given, for every row that has
\* a field for each active column key.
C7_IdentityOnCoveringRows ==
    (/\ result.op \in {"validate_read", "validate_write"}
     /\ AllChainsEmpty
     /\ KeySet(keys, rules) \subseteq DOMAIN result.arg)
    => (result.outcome = "ok" /\ result.value = result.arg)

\* C7 happens: two active columns with empty chains, and a validate_write of a
\* row that has both fields
C7_Witness ==
    /\ result.op = "validate_write"
    /\ AllChainsEmpty
    /\ Len(KeysOf(keys, rules)) = 2
    /\ KeySet(keys, rules) = DOMAIN result.arg
    /\ result.outcome = "ok"

\* How many of the validations t a writerows makes: up to and including the
\* first that fails, or all when none fails
Processed(t) ==
    IF \E i \in 1..Len(t) : Failure(t[i].outcome)
    THEN CHOOSE i \in 1..Len(t) :
            /\ Failure(t[i].outcome)
            /\ \A j \in 1..(i - 1) : ~Failure(t[j].outcome)
    ELSE Len(t)

\* Of the first n validations t, those that returned
Written(t, n) == {i \in 1..n : t[i].outcome = "ok"}

Elements(seq) == {seq[i] : i \in 1..Len(seq)}

\* C9, as stated: the keys a validation runs through are the keys of the rules
\* as they were at construction, and every rule it calls is of one of those
\* columns, also after the caller has modified the rules object.
C9_KeysFixed ==
    result.steps # <<>> =>
        /\ KeysOf(keys, rules) = keys0
        /\ \A s \in 1..Len(result.steps) :
            \A p \in 1..Len(result.steps[s].log) :
                result.steps[s].log[p].key \in Elements(keys0)

\* C10: a validate_read or validate_write leaves the row with the fields it
\* had, each field whose key is not an active key holds what it held (also
\* when the validation raises), and no rule is called for such a key.
C10_WiderRowUntouched ==
    \A s \in 1..Len(result.steps) :
        /\ DOMAIN result.steps[s].out = DOMAIN result.steps[s].row
        /\ \A k \in DOMAIN result.steps[s].row \ KeySet(keys, rules) :
            result.steps[s].out[k] = result.steps[s].row[k]
        /\ \A p \in 1..Len(result.steps[s].log) :
            result.steps[s].log[p].key \in KeySet(keys, rules)

\* C10 happens: one active column, a validate_read of a row of two fields
\* that returned, and the rules changed the field of the active column
C10_Witness ==
    /\ result.op = "validate_read"
    /\ result.outcome = "ok"
    /\ Len(KeysOf(keys, rules)) = 1
    /\ Cardinality(DOMAIN result.arg) = 2
    /\ result.value[KeysOf(keys, rules)[1]] # result.arg[KeysOf(keys, rules)[1]]

\* A validation that ended in the failure of a rule: the last call of a rule
\* it made raised what the validation raised, and that is no DropRow
RuleFailed(st) ==
    /\ Failure(st.outcome)
    /\ st.log # <<>>
    /\ st.log[Len(st.log)].outcome = st.outcome

\* C11: under DISPLAY_SIMPLE every failure of a rule other than DropRow, in
\* validate_read and in validate_write alike, prints one diagnostic with the
\* column key, the row and the failing rule, and the failure then leaves the
\* call as it was raised; under DISPLAY_NONE nothing is printed and the
\* failure leaves the call all the same.
C11_DiagnosticOnEveryFailure ==
    result.op \in {"validate_read", "validate_write"} =>
        \A s \in 1..Len(result.steps) :
            RuleFailed(result.steps[s]) =>
                /\ result.outcome = result.steps[s].outcome
                /\ IF display = DISPLAY_SIMPLE
                   THEN /\ Len(result.steps[s].printed) = 1
                        /\ result.steps[s].printed[1].key =
                               result.steps[s].log[Len(result.steps[s].log)].key
                        /\ result.steps[s].printed[1].rule =
                               result.steps[s].log[Len(result.steps[s].log)].idx
                        /\ result.steps[s].printed[1].row = result.steps[s].out
                   ELSE result.steps[s].printed = <<>>

\* The value the rules made of the field k of a validated row: what the last
\* rule called for k returned, or the field as given if no rule was called
RECURSIVE ValidatedValue(_, _, _)
ValidatedValue(st, k, p) ==
    IF p = 0
    THEN st.row[k]
    ELSE IF st.log[p].key = k
    THEN st.log[p].output
    ELSE ValidatedValue(st, k, p - 1)

\* C12: validate_read, validate_write and writerow given a tuple work on a
\* copy: the row returned or written is a list that holds the validated
\* values, and the caller's tuple holds afterwards what it held before.
C12_TupleCopied ==
    rowtype = "tuple" =>
        /\ \A s \in 1..Len(result.steps) :
            /\ result.steps[s].type = "list"
            /\ result.steps[s].caller = result.steps[s].row
            /\ result.steps[s].outcome = "ok" =>
                   \A k \in DOMAIN result.steps[s].row :
                       result.steps[s].out[k] =
                           ValidatedValue(result.steps[s], k,
                                          Len(result.steps[s].log))
        /\ (/\ result.op \in {"validate_read", "validate_write"}
            /\ result.outcome = "ok")
               => result.value = result.steps[1].out
        /\ (result.op = "writerow" /\ result.steps[1].outcome = "ok")
               => sink[Len(sink)] = RowCall(result.steps[1].out)

\* C12 happens: a writerow of a tuple whose fields the rules changed wrote a
\* row
C12_Witness ==
    /\ rowtype = "tuple"
    /\ result.op = "writerow"
    /\ result.steps[1].outcome = "ok"
    /\ result.steps[1].out # result.steps[1].row
    /\ sink # <<>>

\* What a validation comes to: what it returns or raises, the row it leaves,
\* the state it leaves the rules in, and the calls of rules it made
Outcome(v) ==
    [outcome |-> v.outcome, row |-> v.row, rules |-> v.rules, log |-> v.log]

\* The rules of the pipeline, in whatever state they are
PipelineRules ==
    UNION {{rules.chain[k][i] : i \in 1..Len(rules.chain[k])} :
               k \in DOMAIN rules.chain}

\* C13: for a rule that overrides only apply, read(v) and write(v) come to
\* what apply(v) comes to (value returned, exception or DropRow raised, state
\* of the rule afterwards), and a pipeline of such rules in any state gives
\* the same outcome from validate_read(row) and from validate_write(row).
C13_ReadWriteAreApply ==
    /\ \A rule \in PipelineRules : \A v \in FieldValues :
           /\ RuleRead(rule, v) = RuleApply(rule, v)
           /\ RuleWrite(rule, v) = RuleApply(rule, v)
    /\ \A row \in RowsOf(keys) :
           Outcome(ValidateRead(row, keys, rules)) =
               Outcome(ValidateWrite(row, keys, rules))

\* C13 happens: a validation returned a row the rules had changed, and a rule
\* of the pipeline has changed state since construction
C13_Witness ==
    /\ result.op \in {"validate_read", "validate_write"}
    /\ result.outcome = "ok"
    /\ result.value # result.arg
    /\ \E rule \in PipelineRules : rule.encountered # <<>>

\* The failure of a validation: an exception a rule raises to reject a value
ValidationFailed(outcome) == outcome \in {"ValueError", "IndexError", "Exception"}

\* The value just applied was applied before (history holds it as its last)
Repeated(h) == \E i \in 1..(Len(h) - 1) : h[i] = h[Len(h)]

\* C14: of the values applied to one Unique, one that was not applied before
\* is returned unchanged, and one that was applied before raises the
\* validation failure under ACTION_ERROR and DropRow under ACTION_DROPROW,
\* whatever other values were applied in between.
C14_UniqueFirstOccurrence ==
    (inst.kind = "Unique" /\ result.op = "apply") =>
        IF Repeated(history)
        THEN /\ inst.action = Unique_ACTION_ERROR
                    => ValidationFailed(result.outcome)
             /\ inst.action = Unique_ACTION_DROPROW
                    => result.outcome = "DropRow"
        ELSE /\ result.outcome = "ok"
             /\ result.value = history[Len(history)]

\* C14 happens: a value, another value, then the first value again, which a
\* Unique with ACTION_ERROR rejected
C14_Witness ==
    /\ inst.kind = "Unique"
    /\ inst.action = Unique_ACTION_ERROR
    /\ Len(history) = MaxCalls
    /\ history[1] = history[MaxCalls]
    /\ \A i \in 2..(MaxCalls - 1) : history[i] # history[1]
    /\ ValidationFailed(result.outcome)

\* A value that int (for Integer) or float (for Float) parses
Parseable(kind, v) ==
    /\ v # None
    /\ IF kind = "Integer" THEN IntValid(v) ELSE FloatValid(v)

\* C15: Integer.apply and Float.apply return the number a parseable input
\* denotes under every policy; a non-parseable input raises the validation
\* failure under ACTION_ERROR and under an unrecognised action, gives 0 (0.0
\* for Float) under ACTION_ZERO and raises DropRow under ACTION_DROPROW.
C15_NumericPolicy ==
    (inst.kind \in {"Integer", "Float"} /\ result.op = "apply") =>
        IF Parseable(inst.kind, result.arg)
        THEN /\ result.outcome = "ok"
             /\ result.value = IF inst.kind = "Integer"
                               THEN IntValue(result.arg)
                               ELSE FloatValue(result.arg)
        ELSE /\ inst.action \in {Integer_ACTION_ERROR, ACTION_UNKNOWN}
                    => Failure(result.outcome)
             /\ inst.action = Integer_ACTION_ZERO
                    => /\ result.outcome = "ok"
                       /\ result.value = IF inst.kind = "Integer" THEN 0
                                         ELSE FloatZero
             /\ inst.action = Integer_ACTION_DROPROW
                    => result.outcome = "DropRow"

\* The digit d_i of a code, counted from 0
D(code, i) == DigitVal(code[i + 1])

\* C16: a strict UpcA accepts a code of 12 digits d0..d11 exactly when d11 is
\* (-(3*(d0+d2+d4+d6+d8+d10) + (d1+d3+d5+d7+d9))) mod 10, a value in 0..9,
\* returning the code, and raises the validation failure for every other.
C16_StrictCheckDigit ==
    (/\ inst.kind = "UpcA"
     /\ inst.strict
     /\ result.op = "apply"
     /\ Len(result.arg) = 12
     /\ AllDigits(result.arg)) =>
        IF D(result.arg, 11) =
               (0 - (3 * (D(result.arg, 0) + D(result.arg, 2) + D(result.arg, 4)
                          + D(result.arg, 6) + D(result.arg, 8)
                          + D(result.arg, 10))
                     + (D(result.arg, 1) + D(result.arg, 3) + D(result.arg, 5)
                        + D(result.arg, 7) + D(result.arg, 9)))) % 10
        THEN result.outcome = "ok" /\ result.value = result.arg
        ELSE ValidationFailed(result.outcome)

\* C16 happens: a strict UpcA accepted a code of 12 digits whose first digit
\* and last three digits are not 0
C16_Witness ==
    /\ inst.kind = "UpcA"
    /\ inst.strict
    /\ result.op = "apply"
    /\ result.outcome = "ok"
    /\ Len(result.arg) = 12
    /\ \A i \in {1, 10, 11, 12} : result.arg[i] # "0"

\* C17 as stated: a UpcA that is not strict returns every input of digits
\* only that has at most 12 of them padded with zeros on the left to 12
\* digits; every input with a character that is no digit and every input of
\* 13 or more digits raises the validation failure, strict or not.
C17_PadsEveryDigitString ==
    (inst.kind = "UpcA" /\ result.op = "apply") =>
        /\ (~inst.strict /\ AllDigits(result.arg) /\ Len(result.arg) <= 12)
               => /\ result.outcome = "ok"
                  /\ Len(result.value) = 12
                  /\ \E n \in 0..12 : result.value = Zeros(n) \o result.arg
        /\ (~AllDigits(result.arg) \/ Len(result.arg) >= 13)
               => ValidationFailed(result.outcome)

\* C17: the same for the inputs of digits only that have at least one digit
\* and at most 12 (the empty string raises the validation failure).
C17_PadsDigitStrings ==
    (inst.kind = "UpcA" /\ result.op = "apply") =>
        /\ (/\ ~inst.strict
            /\ AllDigits(result.arg)
            /\ Len(result.arg) >= 1
            /\ Len(result.arg) <= 12)
               => /\ result.outcome = "ok"
                  /\ Len(result.value) = 12
                  /\ \E n \in 0..12 : result.value = Zeros(n) \o result.arg
        /\ (~AllDigits(result.arg) \/ Len(result.arg) >= 13 \/ result.arg = <<>>)
               => ValidationFailed(result.outcome)

\* C17 happens: a UpcA that is not strict padded a code of fewer than 12
\* digits that does not start with 0
C17_Witness ==
    /\ inst.kind = "UpcA"
    /\ ~inst.strict
    /\ result.op = "apply"
    /\ result.outcome = "ok"
    /\ Len(result.arg) \in 1..11
    /\ result.arg[1] # "0"
    /\ result.value # result.arg

\* C18: ReplaceValue.apply returns what the mapping holds for a value it
\* holds, whatever the policy; for a value it does not hold it raises DropRow
\* under ACTION_DROPROW, returns the configured default under
\* ACTION_DEFAULT_VALUE, the empty string under ACTION_BLANK, the value
\* itself under ACTION_PASSTHROUGH, and raises an error under ACTION_ERROR
\* and under an unrecognised policy.
C18_ReplaceValuePolicy ==
    (made.kind = "ReplaceValue" /\ result.op = "apply") =>
        IF result.arg \in DOMAIN made.replacements
        THEN /\ result.outcome = "ok"
             /\ result.value = made.replacements[result.arg]
        ELSE CASE made.missing_action = ReplaceValue_ACTION_DROPROW ->
                     result.outcome = "DropRow"
               [] made.missing_action = ReplaceValue_ACTION_DEFAULT_VALUE ->
                     result.outcome = "ok" /\ result.value = made.default_value
               [] made.missing_action = ReplaceValue_ACTION_BLANK ->
                     result.outcome = "ok" /\ result.value = <<>>
               [] made.missing_action = ReplaceValue_ACTION_PASSTHROUGH ->
                     result.outcome = "ok" /\ result.value = result.arg
               [] OTHER -> ValidationFailed(result.outcome)

\* C18 happens: a ReplaceValue made with ACTION_BLANK and a default that is
\* not empty returned the empty string for a value its mapping does not hold
C18_Witness ==
    /\ made.kind = "ReplaceValue"
    /\ made.missing_action = ReplaceValue_ACTION_BLANK
    /\ made.default_value # <<>>
    /\ result.op = "apply"
    /\ result.arg \notin DOMAIN made.replacements
    /\ result.arg # <<>>
    /\ result.value = <<>>

\* The values of h that are not empty, in order
NonEmpty(h) == SelectSeq(h, LAMBDA v : v # <<>>)

\* The values applied before the last one
Before(h) == SubSeq(h, 1, Len(h) - 1)

\* C19: of the values applied to one Cary, one that is not empty is returned
\* as it is and is carried from then on; an empty one gives the last value
\* before it that was not empty; an empty one with no such value before it
\* raises the validation failure, gives the configured default or raises
\* DropRow, as the policy says, and the default given is not carried.
C19_CarryForward ==
    (inst.kind = "Cary" /\ result.op = "apply") =>
        IF history[Len(history)] # <<>>
        THEN /\ result.outcome = "ok"
             /\ result.value = history[Len(history)]
             /\ inst.carried = history[Len(history)]
        ELSE IF NonEmpty(Before(history)) # <<>>
        THEN /\ result.outcome = "ok"
             /\ result.value =
                    NonEmpty(Before(history))[Len(NonEmpty(Before(history)))]
        ELSE /\ inst.carried = None
             /\ made.action = Cary_ACTION_ERROR
                    => ValidationFailed(result.outcome)
             /\ made.action = Cary_ACTION_DEFAULT
                    => result.outcome = "ok" /\ result.value = made.default
             /\ made.action = Cary_ACTION_DROPROW
                    => result.outcome = "DropRow"

\* C19 happens: two different values that are not empty, then an empty one,
\* for which the Cary gave the second
C19_Witness ==
    /\ inst.kind = "Cary"
    /\ result.op = "apply"
    /\ Len(history) >= 3
    /\ history[Len(history)] = <<>>
    /\ history[Len(history) - 1] # <<>>
    /\ history[Len(history) - 2] # <<>>
    /\ history[Len(history) - 1] # history[Len(history) - 2]
    /\ result.value = history[Len(history) - 1]

\* The text s is the token, letter for letter, in whatever case
IsToken(s, token) ==
    /\ Len(s) = Len(token)
    /\ \A i \in 1..Len(token) : s[i] = token[i] \/ s[i] = UpperChar(token[i])

Among(s, tokens) == \E token \in tokens : IsToken(s, token)

\* C20: Boolean.apply gives True for true, yes, t and 1 and False for false,
\* no, f and 0, in whatever case; null, none and the empty text give None
\* when allow_null is set; every other text, and those three when allow_null
\* is not set, raises the validation failure under ACTION_ERROR and under an
\* unrecognised action, gives the configured default under ACTION_DEFAULT and
\* raises DropRow under ACTION_DROPROW.
C20_BooleanTokens ==
    (made.kind = "Boolean" /\ result.op = "apply") =>
        IF Among(Str(result.arg), TrueTokens)
        THEN result.outcome = "ok" /\ result.value = True
        ELSE IF Among(Str(result.arg), FalseTokens)
        THEN result.outcome = "ok" /\ result.value = False
        ELSE IF made.allow_null /\ Among(Str(result.arg), NullTokens)
        THEN result.outcome = "ok" /\ result.value = None
        ELSE /\ made.action \in {Boolean_ACTION_ERROR, ACTION_UNKNOWN}
                    => ValidationFailed(result.outcome)
             /\ made.action = Boolean_ACTION_DEFAULT
                    => result.outcome = "ok" /\ result.value = made.default
             /\ made.action = Boolean_ACTION_DROPROW
                    => result.outcome = "DropRow"

\* C20 happens: a Boolean gave False for a text of the letters of "false"
\* with capitals after the first letter
C20_Witness ==
    /\ made.kind = "Boolean"
    /\ result.op = "apply"
    /\ result.arg # None
    /\ Len(result.arg) = 5
    /\ result.arg[1] = "f"
    /\ result.arg[5] = "E"
    /\ result.outcome = "ok"
    /\ result.value = False

\* The call before the last one
Previous == result.steps[Len(result.steps)]

\* A write of a Bytes that was given what the read before it returned
RoundTrip ==
    /\ inst.kind = "Bytes"
    /\ result.op = "write"
    /\ Previous.op = "read"
    /\ Previous.outcome = "ok"
    /\ result.arg = Previous.value

\* C21 as stated: for a Bytes of whatever encoding and a string s the
\* encoding can encode, write(read(s)) returns s.
C21_RoundTripEveryEncoding ==
    RoundTrip => (result.outcome = "ok" /\ result.value = Previous.arg)

\* C21: for a Bytes whose encoding is utf8, ascii or latin-1 and a string s
\* the encoding can encode, write(read(s)) returns s.
C21_RoundTripCharsets ==
    (RoundTrip /\ inst.encoding \in Charsets) =>
        (result.outcome = "ok" /\ result.value = Previous.arg)

\* C21 happens: a utf8 Bytes read a string with characters of one, two and
\* three bytes, and its write gave the string back
C21_Witness ==
    /\ RoundTrip
    /\ inst.encoding = "utf8"
    /\ Len(Previous.arg) = 3
    /\ Len(Body(result.arg)) = 6
    /\ result.value = Previous.arg

\* A validation that a rule ended, with a failure or with DropRow, and the
\* column of that rule
RuleRaised(st) ==
    /\ st.outcome # "ok"
    /\ st.log # <<>>
    /\ st.log[Len(st.log)].outcome = st.outcome

RaisedIn(st) == st.log[Len(st.log)].key

\* The columns a rule was called for before the column k was reached
DoneBefore(st, k) == {st.log[p].key : p \in 1..Len(st.log)} \ {k}

\* C22: when validate_read or validate_write is given a list or a dict and a
\* rule of column k raises a failure or DropRow, the caller's row holds the
\* validated value in every column processed before k and what it held
\* before the call in column k and in every other column.
C22_PartialRowOnFailure ==
    (result.op \in {"validate_read", "validate_write"}
        /\ rowtype \in {"list", "dict"}) =>
        \A s \in 1..Len(result.steps) :
            RuleRaised(result.steps[s]) =>
                \A key \in DOMAIN result.steps[s].row :
                    result.steps[s].caller[key] =
                        IF key \in DoneBefore(result.steps[s],
                                              RaisedIn(result.steps[s]))
                        THEN ValidatedValue(result.steps[s], key,
                                            Len(result.steps[s].log))
                        ELSE result.steps[s].row[key]

\* C22 happens: a rule of the second column failed after the rules of the
\* first had changed its field, and the caller's row holds the change
C22_Witness ==
    /\ result.op \in {"validate_read", "validate_write"}
    /\ rowtype \in {"list", "dict"}
    /\ RuleRaised(result.steps[1])
    /\ ValidationFailed(result.outcome)
    /\ DoneBefore(result.steps[1], RaisedIn(result.steps[1])) # {}
    /\ result.steps[1].caller # result.steps[1].row

\* The calls of Unique rules a validation made, and the seen-set of the rule
\* a call was made on as the rules now hold it
UniqueCalls(st) ==
    {c \in {st.log[p] : p \in 1..Len(st.log)} : c.rule = "Unique"}

Seen(c) ==
    {rules.chain[c.key][c.idx].encountered[p] :
        p \in 1..Len(rules.chain[c.key][c.idx].encountered)}

SameRule(c1, c2) == c1.key = c2.key /\ c1.idx = c2.idx

\* C23: a value a Unique rule let pass is in the rule's seen-set after the
\* operation whatever became of its row (emitted, dropped or failed by a
\* later rule); the rule rejects the same value in every later row; and so
\* the values a Unique rule passed in the rows emitted are pairwise distinct.
C23_UniqueRecordKept ==
    result.op \in {"next", "iter", "for", "while"} =>
        /\ \A s \in 1..Len(result.steps) :
             \A c \in UniqueCalls(result.steps[s]) :
                c.outcome = "ok" => c.input \in Seen(c)
        /\ \A s1 \in 1..Len(result.steps) : \A s2 \in (s1 + 1)..Len(result.steps) :
             \A c1 \in UniqueCalls(result.steps[s1]) :
                \A c2 \in UniqueCalls(result.steps[s2]) :
                    /\ (c1.outcome = "ok" /\ SameRule(c1, c2)
                            /\ c2.input = c1.input)
                        => c2.outcome \in {"Exception", "DropRow"}
                    /\ (result.steps[s1].outcome = "ok"
                            /\ result.steps[s2].outcome = "ok"
                            /\ SameRule(c1, c2))
                        => c2.input # c1.input

\* C23 happens: the first row of the source passed a Unique rule and was
\* dropped by a later rule, the last row was rejected by the same Unique
\* rule for the same value, and the loop that read the whole source saw no
\* row at all
C23_Witness ==
    /\ result.op \in {"for", "while"}
    /\ result.value = <<>>
    /\ Len(result.steps) = MaxRows
    /\ result.steps[1].outcome = "DropRow"
    /\ result.outcome = "Exception"
    /\ \E c1 \in UniqueCalls(result.steps[1]) :
        \E c2 \in UniqueCalls(result.steps[MaxRows]) :
            /\ c1.outcome = "ok"
            /\ SameRule(c1, c2)
            /\ c2.input = c1.input
            /\ c2.outcome = "Exception"

\* A loop over the source in which no row failed
NoRowFailed(l) == \A s \in 1..Len(l.steps) : ~Failure(l.steps[s].outcome)

\* What a loop that is over has done: its outcome, the rows its body saw,
\* its validations, and the source and the rules it leaves
Done(res, src, rls) ==
    [outcome |-> res.outcome, value |-> res.value, steps |-> res.steps,
     source |-> src, rules |-> rls]

\* The two loops of a caller, begun in the same state, end alike
LoopsAgree(f, w) ==
    (NoRowFailed(f) \/ NoRowFailed(w)) =>
        /\ f.value = w.value
        /\ f.rules = w.rules
        /\ f.source = w.source
        /\ f.outcome = "StopIteration"
        /\ w.outcome = "StopIteration"

\* C24: from any state of a reader, the loop over iter(r) gives the rows and
\* leaves the rules that the loop of next(r) begun in the same state gives
\* and leaves, when no row fails.  A
\* read-next that fails has consumed the failing row, and the read-next
\* after it begins with the row that follows; a generator whose resumption
\* failed is finished, and resumed again it raises StopIteration and reads
\* nothing.
C24_ReadPathsAgree ==
    [][/\ result'.op = "for"
            => \A w \in {WhileFold(source, keys, rules, <<>>, <<>>)} :
                LoopsAgree(Done(result', source', rules'), w)
       /\ (result'.op = "next" /\ ValidationFailed(result'.outcome))
            => source' = SubSeq(source, Len(result'.steps) + 1, Len(source))
       /\ (result.op = "next" /\ ValidationFailed(result.outcome)
                /\ result'.op = "next" /\ source # <<>>)
            => /\ result'.steps # <<>>
               /\ result'.steps[1].row = Head(source)
       /\ (result'.op = "iter" /\ ValidationFailed(result'.outcome))
            => gen' = "finished"
       /\ (gen = "finished" /\ result'.op = "iter")
            => /\ result'.outcome = "StopIteration"
               /\ result'.value = <<>>
               /\ result'.steps = <<>>
               /\ source' = source
               /\ rules' = rules]_vars

\* C24 happens: a `for` loop read a source of MaxRows rows to its end, a row
\* was dropped, a row reached the body, and none failed
C24_Witness ==
    /\ result.op = "for"
    /\ result.outcome = "StopIteration"
    /\ Len(result.steps) = MaxRows
    /\ result.value # <<>>
    /\ \E s \in 1..Len(result.steps) : result.steps[s].outcome = "DropRow"

====
